---- MODULE Spec2Model ----
(***************************************************************************)
(* A model of salted_demo.py: the salted version of a luigi task           *)
(* (get_salted_version), the salted target (salted_target) and the demo    *)
(* pipeline built in __main__.                                             *)
(*                                                                         *)
(* Text.  A Python str is a sequence of tokens.  A token is either one     *)
(* character, <<"chr", c>>, or one whole sha256 hexdigest,                 *)
(* <<"sha256", m>>, which stands for the 64 lowercase hex characters       *)
(* that sha256 yields for the message m.  Distinct messages give distinct  *)
(* tokens: the hash is taken to be collision free, and a hexdigest has a   *)
(* fixed width, so a run of hexdigests splits in one way only.             *)
(***************************************************************************)
EXTENDS Integers, Sequences, FiniteSets, TLC

VARIABLES
    tasks,      \* task object -> its descriptor (kind, __version__, params, requires)
    stack,      \* the Python call stack of get_salted_version frames
    outcome,    \* "idle" | "running" | "returned" | "RecursionError"
    result,     \* the hexdigest the top-level call returned
    calls,      \* task -> number of get_salted_version frames entered for it
    root,       \* the task the top-level call was made on (0: none yet)
    shadow,     \* the tasks whose __version__ is set on the instance itself
    fs,         \* the paths of the files that exist
    phase,      \* luigi's build: "idle" | "running" | "done"
    pending,    \* the tasks the running build still has to run
    ran,        \* the tasks whose run() the last build executed
    changed,    \* the tasks whose __version__ changed since the last build ended
    stale,      \* the files that existed when __version__ was last changed
    bumps       \* number of __version__ changes so far

callVars == <<stack, outcome, result, calls, root>>
buildVars == <<fs, phase, pending, ran, changed, stale, bumps>>
vars == <<tasks, callVars, shadow, buildVars>>

\* ------------------------------------------------------------------ bounds

\* Number of task objects in a generic graph.
NTasks == 3

\* The interpreter's recursion limit, counted in get_salted_version frames.
RecursionLimit == 4

\* Number of __version__ changes followed between the builds of the demo.
MaxBumps == 2

\* ------------------------------------------------------ program constants

\* Week.from_date(...) is an interval of seven dates.
DaysInWeek == 7

\* The salt is get_salted_version(task)[:6].
SaltLen == 6

Tasks == 1..NTasks

\* ------------------------------------------------------------------- text

Ch(c) == <<"chr", c>>

\* A str literal from its characters.
Str(s) == [i \in 1..Len(s) |-> Ch(s[i])]

\* Code points of the characters that parameter names are made of.
Ord(c) ==
    CASE c = "a" -> 97
      [] c = "b" -> 98
      [] c = "c" -> 99
      [] c = "d" -> 100
      [] c = "e" -> 101
      [] c = "g" -> 103
      [] c = "i" -> 105
      [] c = "k" -> 107
      [] c = "l" -> 108
      [] c = "m" -> 109
      [] c = "n" -> 110
      [] c = "r" -> 114
      [] c = "t" -> 116
      [] c = "v" -> 118
      [] c = "_" -> 95

\* Python's str < str on names: lexicographic by code point.
RECURSIVE StrLess(_, _)
StrLess(s, t) ==
    IF t = <<>> THEN FALSE
    ELSE IF s = <<>> THEN TRUE
    ELSE IF Head(s) = Head(t) THEN StrLess(Tail(s), Tail(t))
    ELSE Ord(Head(s)[2]) < Ord(Head(t)[2])

\* sep.join(parts)
RECURSIVE Join(_, _)
Join(sep, parts) ==
    IF parts = <<>> THEN <<>>
    ELSE IF Len(parts) = 1 THEN parts[1]
    ELSE parts[1] \o sep \o Join(sep, Tail(parts))

\* The concatenation of a sequence of strs.
RECURSIVE Concat(_)
Concat(parts) ==
    IF parts = <<>> THEN <<>> ELSE Head(parts) \o Concat(Tail(parts))

Digit(d) == Ch(<<"0", "1", "2", "3", "4", "5", "6", "7", "8", "9">>[d + 1])

\* str(n) of a natural number.
RECURSIVE Dec(_)
Dec(n) == IF n < 10 THEN <<Digit(n)>> ELSE Dec(n \div 10) \o <<Digit(n % 10)>>

\* n as two digits, zero padded ('%02d').
Dec2(n) == IF n < 10 THEN <<Digit(0), Digit(n)>> ELSE Dec(n)

\* ----------------------------------------------------------------- values

IntV(n) == <<"int", n>>
StrV(s) == <<"str", s>>
FloatV(n) == <<"float", n>>         \* the float n.0
DateV(y, m, d) == <<"date", y, m, d>>
WeekV(y, w) == <<"week", y, w>>

\* repr(value): what '{}'.format(param_name, repr(...)) puts into the message.
Repr(v) ==
    CASE v[1] = "int" -> Dec(v[2])
      [] v[1] = "str" -> Str(<<"'">>) \o v[2] \o Str(<<"'">>)
      [] v[1] = "float" -> Dec(v[2]) \o Str(<<".", "0">>)
      [] v[1] = "date" ->
            Str(<<"d", "a", "t", "e", "t", "i", "m", "e", ".", "d", "a", "t", "e", "(">>)
            \o Dec(v[2]) \o Str(<<",", " ">>) \o Dec(v[3]) \o Str(<<",", " ">>)
            \o Dec(v[4]) \o Str(<<")">>)
      [] v[1] = "week" -> Dec(v[2]) \o Str(<<"-", "W">>) \o Dec2(v[3])

\* ------------------------------------------------------------ descriptors

\* One declared parameter of a task: get_params() yields (name, Parameter)
\* in declaration order, param_kwargs[name] is the value.
Param(name, value, significant) ==
    [name |-> name, value |-> value, significant |-> significant]

\* What requires() may return: nothing ([]), one task, a list of such
\* structures, or a dict of them (kept in insertion order).
NoReq == <<"list", <<>>>>
One(t) == <<"task", t>>
List(items) == <<"list", items>>
Dict(pairs) == <<"dict", pairs>>

Task(kind, version, params, requires) ==
    [kind |-> kind, version |-> version, params |-> params, requires |-> requires]

\* luigi.task.flatten: a dict contributes its values in iteration (that is
\* insertion) order, any other iterable its items in order, a task itself.
RECURSIVE flatten(_)
flatten(struct) ==
    CASE struct[1] = "task" -> <<struct[2]>>
      [] struct[1] = "list" ->
            IF struct[2] = <<>> THEN <<>>
            ELSE flatten(Head(struct[2])) \o flatten(List(Tail(struct[2])))
      [] struct[1] = "dict" ->
            IF struct[2] = <<>> THEN <<>>
            ELSE flatten(Head(struct[2])[2]) \o flatten(Dict(Tail(struct[2])))

\* ps with p put before the first entry whose name is greater.
RECURSIVE Insert(_, _)
Insert(p, ps) ==
    IF ps = <<>> THEN <<p>>
    ELSE IF StrLess(p.name, Head(ps).name) THEN <<p>> \o ps
    ELSE <<Head(ps)>> \o Insert(p, Tail(ps))

RECURSIVE SortByName(_)
SortByName(ps) ==
    IF ps = <<>> THEN <<>> ELSE Insert(Head(ps), SortByName(Tail(ps)))

\* sorted(task.get_params()): the (name, Parameter) pairs, by name.
NoSort(ps) == ps

sorted(ps) == SortByName(ps)

\* "if param.significant"
EveryParam(p) == TRUE

Included(p) == p.significant

\* '{}={}'.format(param_name, repr(task.param_kwargs[param_name]))
Token(p) == p.name \o Str(<<"=">>) \o Repr(p.value)

RECURSIVE Tokens(_)
Tokens(ps) ==
    IF ps = <<>> THEN <<>>
    ELSE IF Included(Head(ps)) THEN <<Token(Head(ps))>> \o Tokens(Tail(ps))
    ELSE Tokens(Tail(ps))

\* ','.join([class name, __version__] + [tokens of the significant params])
Identity(d) == Join(Str(<<",">>), <<d.kind, d.version>> \o Tokens(sorted(d.params)))

\* sha256(msg.encode()).hexdigest()
sha256(msg) == << <<"sha256", msg>> >>

\* A variant that keeps one digest per class name: the digest of the first
\* task of the kind.
RECURSIVE SaltedByKind(_, _)
SaltedByKind(g, t) ==
    LET f == CHOOSE u \in DOMAIN g :
                /\ g[u].kind = g[t].kind
                /\ \A w \in DOMAIN g : g[w].kind = g[t].kind => u <= w
        reqs == flatten(g[f].requires) IN
    sha256(Concat([i \in 1..Len(reqs) |-> SaltedByKind(g, reqs[i])]) \o Identity(g[f]))

\* get_salted_version(task) in the graph g (task -> descriptor): the digests
\* of the flattened requirements, in order, then the identity, hashed.
RECURSIVE get_salted_version(_, _)
\* A variant that does not salt with the lineage.
NoLineage(g, reqs) == <<>>

Lineage(g, reqs) ==
    Concat([i \in 1..Len(reqs) |-> get_salted_version(g, reqs[i])])

get_salted_version(g, t) ==
    sha256(Lineage(g, flatten(g[t].requires)) \o Identity(g[t]))

\* The digest of every task of the graph g.
Digests(g) == [t \in DOMAIN g |-> get_salted_version(g, t)]

\* The message get_salted_version hashes for task t.
Message(g, t) == Lineage(g, flatten(g[t].requires)) \o Identity(g[t])

\* ------------------------------------------------------------ input pools

Kinds == {Str(<<"A">>), Str(<<"B">>)}

\* __version__ is any str: '1', and one that holds the comma and '='.
Versions == {Str(<<"1">>), Str(<<"1", ",", "a", "=", "1">>)}

ParamNames == {Str(<<"a">>), Str(<<"b">>)}

\* The int 1 and the str '1'.
Values == {IntV(1), StrV(Str(<<"1">>))}

Params == {Param(n, v, s) : n \in ParamNames, v \in Values, s \in BOOLEAN}

\* Parameter declarations: up to two, of distinct names, in either order.
ParamLists ==
    {<<>>} \cup {<<p>> : p \in Params}
    \cup {<<p, q>> : <<p, q>> \in {pq \in Params \X Params : pq[1].name # pq[2].name}}

DictKeys == <<Str(<<"x">>), Str(<<"y">>)>>

\* What requires() of a task may return over the tasks of L: nothing, one
\* task, a list of two tasks, a nested list, a dict of two tasks.
ReqPool(L) ==
    LET pairs == {ab \in L \X L : ab[1] < ab[2]} IN
    {NoReq} \cup {One(a) : a \in L}
    \cup {List(<<One(ab[1]), One(ab[2])>>) : ab \in pairs}
    \cup {List(<<List(<<One(ab[1])>>), One(ab[2])>>) : ab \in pairs}
    \cup {Dict(<< <<DictKeys[1], One(ab[1])>>, <<DictKeys[2], One(ab[2])>> >>) : ab \in pairs}
    \cup {Dict(<< <<DictKeys[1], One(ab[2])>>, <<DictKeys[2], One(ab[1])>> >>) : ab \in pairs}

\* Graphs of n tasks without parameters, every __version__ '1'; a task
\* requires only tasks constructed before it, so the graph is acyclic.
RECURSIVE PlainGraphs(_)
PlainGraphs(n) ==
    IF n = 0 THEN {<<>>}
    ELSE {Append(g, Task(k, Str(<<"1">>), <<>>, r)) :
            g \in PlainGraphs(n - 1), k \in Kinds, r \in ReqPool(1..(n - 1))}

\* Parameter declarations as first written: an insignificant parameter
\* holds the int 1.
FirstParamLists ==
    {ps \in ParamLists :
        \A i \in 1..Len(ps) : ~ps[i].significant => ps[i].value = IntV(1)}

\* Two leaf tasks with any declarations, and a task that requires both.
PairGraphs ==
    {<<Task(k1, v1, p1, NoReq), Task(k2, v2, p2, NoReq),
       Task(Str(<<"A">>), Str(<<"1">>), <<>>, List(<<One(1), One(2)>>))>> :
        k1 \in Kinds, v1 \in {Str(<<"1">>)}, p1 \in FirstParamLists,
        k2 \in Kinds, v2 \in {Str(<<"1">>)}, p2 \in FirstParamLists}

Idle ==
    /\ stack = <<>>
    /\ outcome = "idle"
    /\ result = <<>>
    /\ calls = <<>>
    /\ root = 0

NoBuild ==
    /\ shadow = {}
    /\ fs = {}
    /\ phase = "idle"
    /\ pending = {}
    /\ ran = {}
    /\ changed = {}
    /\ stale = {}
    /\ bumps = 0

\* The graph as first written: lists name the earlier task first and dicts
\* are filled in key order.  The edits below reach the other versions,
\* values and orders.
Init ==
    /\ tasks \in PlainGraphs(NTasks) \cup PairGraphs
    /\ Idle
    /\ NoBuild

\* ------------------------------------------------- edits between two runs

\* task.__version__ is set to another str.
BumpVersion(t, v) ==
    /\ v # tasks[t].version
    /\ tasks' = [tasks EXCEPT ![t].version = v]
    /\ UNCHANGED <<callVars, shadow, buildVars>>

\* The task is built with another value for its i-th declared parameter.
SetParam(t, i, v) ==
    /\ i \in 1..Len(tasks[t].params)
    /\ v # tasks[t].params[i].value
    /\ tasks' = [tasks EXCEPT ![t].params[i].value = v]
    /\ UNCHANGED <<callVars, shadow, buildVars>>

\* requires() returns its two-element list in the other order.
SwapRequires(t) ==
    /\ tasks[t].requires[1] = "list"
    /\ Len(tasks[t].requires[2]) = 2
    /\ tasks' = [tasks EXCEPT ![t].requires =
                    List(<<tasks[t].requires[2][2], tasks[t].requires[2][1]>>)]
    /\ UNCHANGED <<callVars, shadow, buildVars>>

\* requires() builds the same two-key dict, inserting the keys in the
\* other order.
ReinsertDict(t) ==
    /\ tasks[t].requires[1] = "dict"
    /\ Len(tasks[t].requires[2]) = 2
    /\ tasks' = [tasks EXCEPT ![t].requires =
                    Dict(<<tasks[t].requires[2][2], tasks[t].requires[2][1]>>)]
    /\ UNCHANGED <<callVars, shadow, buildVars>>

Next ==
    \/ \E t \in DOMAIN tasks, v \in Versions : BumpVersion(t, v)
    \/ \E t \in DOMAIN tasks, i \in 1..2, v \in Values : SetParam(t, i, v)
    \/ \E t \in DOMAIN tasks : SwapRequires(t)
    \/ \E t \in DOMAIN tasks : ReinsertDict(t)

Spec == Init /\ [][Next]_vars

\* ------------------------------------- one call, frame by frame (Python)

\* Graphs of NTasks parameterless tasks in which requires() may name any
\* task, the task itself included: nothing in luigi or in this module
\* keeps a task from requiring itself through others.
CallReqPool ==
    {NoReq} \cup {One(a) : a \in Tasks}
    \cup {List(<<One(ab[1]), One(ab[2])>>) : ab \in {x \in Tasks \X Tasks : x[1] < x[2]}}

CallGraphs ==
    {[t \in Tasks |-> Task(Str(<<"A">>), Str(<<"1">>), <<>>, r[t])] :
        r \in [Tasks -> CallReqPool]}

InitCall ==
    /\ tasks \in CallGraphs
    /\ Idle
    /\ NoBuild

\* A frame of get_salted_version(task): the flattened requirements being
\* looped over, the index of the next one, and msg so far.
Frame(t) == [task |-> t, reqs |-> flatten(tasks[t].requires), next |-> 1, msg |-> <<>>]

Top == stack[Len(stack)]

\* The caller (salted_target) calls get_salted_version on the task it was
\* given: here the task constructed last.
Start ==
    /\ outcome = "idle"
    /\ outcome' = "running"
    /\ root' = NTasks
    /\ stack' = <<Frame(NTasks)>>
    /\ calls' = [u \in Tasks |-> IF u = NTasks THEN 1 ELSE 0]
    /\ UNCHANGED <<tasks, result, shadow, buildVars>>

\* "msg += get_salted_version(req)": the loop calls for its next requirement.
Call ==
    /\ outcome = "running"
    /\ Top.next <= Len(Top.reqs)
    /\ Len(stack) < RecursionLimit
    /\ stack' = Append(stack, Frame(Top.reqs[Top.next]))
    /\ calls' = [calls EXCEPT ![Top.reqs[Top.next]] = @ + 1]
    /\ UNCHANGED <<tasks, outcome, result, root, shadow, buildVars>>

\* A variant that catches the RecursionError and hashes nothing.
Swallow ==
    /\ outcome = "running"
    /\ Top.next <= Len(Top.reqs)
    /\ Len(stack) >= RecursionLimit
    /\ stack' = <<>>
    /\ outcome' = "returned"
    /\ result' = sha256(<<>>)
    /\ UNCHANGED <<tasks, calls, root, shadow, buildVars>>

\* The call would exceed the recursion limit: Python raises RecursionError,
\* which no frame catches, so it unwinds to the caller.
Raise ==
    /\ outcome = "running"
    /\ Top.next <= Len(Top.reqs)
    /\ Len(stack) >= RecursionLimit
    /\ stack' = <<>>
    /\ outcome' = "RecursionError"
    /\ UNCHANGED <<tasks, result, calls, root, shadow, buildVars>>

\* The loop is over: the identity is appended, the digest returned and,
\* in the calling frame, appended to msg.
Return ==
    /\ outcome = "running"
    /\ Top.next > Len(Top.reqs)
    /\ LET digest == sha256(Top.msg \o Identity(tasks[Top.task]))
           n == Len(stack) IN
       IF n = 1
       THEN /\ stack' = <<>>
            /\ outcome' = "returned"
            /\ result' = digest
       ELSE /\ stack' = [SubSeq(stack, 1, n - 1) EXCEPT
                            ![n - 1].msg = @ \o digest,
                            ![n - 1].next = @ + 1]
            /\ UNCHANGED <<outcome, result>>
    /\ UNCHANGED <<tasks, calls, root, shadow, buildVars>>

NextCall ==
    \/ Start
    \/ Call
    \/ Raise
    \/ Return

\* The interpreter runs the call to its end.
SpecCall == InitCall /\ [][NextCall]_vars /\ WF_vars(NextCall)

\* The tasks reachable from those of S along requires() in at most n steps.
RECURSIVE Reach(_, _, _)
Reach(g, S, n) ==
    IF n = 0 THEN S
    ELSE Reach(g, S \cup UNION {{flatten(g[t].requires)[i] :
                                    i \in 1..Len(flatten(g[t].requires))} : t \in S},
               n - 1)

Required(g, t) == {flatten(g[t].requires)[i] : i \in 1..Len(flatten(g[t].requires))}

\* t lies on a cycle of g.
OnCycle(g, t) == t \in Reach(g, Required(g, t), Cardinality(DOMAIN g))

\* The dependency graph of t contains a cycle.
Cyclic(g, t) == \E u \in Reach(g, {t}, Cardinality(DOMAIN g)) : OnCycle(g, u)

\* C8: a call on a task whose dependency graph contains a cycle never
\* returns a digest, and it ends in an error.
C8_CycleFails ==
    /\ [](root # 0 /\ Cyclic(tasks, root) => outcome # "returned")
    /\ [](root # 0 /\ Cyclic(tasks, root) => <>(outcome = "RecursionError"))

\* The call on a task that reaches a cycle only through a requirement that
\* is not its first has ended in RecursionError, after the acyclic
\* requirement before it was computed.
C8_Witness ==
    /\ outcome = "RecursionError"
    /\ Cyclic(tasks, root)
    /\ ~OnCycle(tasks, root)
    /\ \E t \in Tasks : calls[t] > 0 /\ ~Cyclic(tasks, t)

\* C9: within one top-level call on an acyclic graph the digest of each
\* task is computed at most once.
C9_ComputedOnce ==
    root # 0 /\ ~Cyclic(tasks, root) => \A t \in Tasks : calls[t] <= 1

\* --------------------------------------------------- the demo pipeline

STREAMS == Str(<<"S", "t", "r", "e", "a", "m", "s">>)
AGGREGATE ==
    Str(<<"A", "g", "g", "r", "e", "g", "a", "t", "e", "A", "r", "t", "i", "s", "t", "s">>)
TRAIN == Str(<<"T", "r", "a", "i", "n", "D", "i", "g", "i", "t", "s">>)
PREDICT == Str(<<"P", "r", "e", "d", "i", "c", "t", "D", "i", "g", "i", "t", "s">>)

\* Streams.__version__ and SVCTask.__version__
V10 == Str(<<"1", ".", "0">>)
\* AggregateArtists.__version__
V12 == Str(<<"1", ".", "2", " ", "-", " ", "b", "u", "g", "f", "i", "x">>)
\* The version a bump moves to.
V11 == Str(<<"1", ".", "1">>)

\* SVCTask: c = FloatParameter(default=100.), gamma = FloatParameter(default=1.),
\* kernel = Parameter(default='rbf'); a Parameter is significant by default.
SVCParams ==
    <<Param(Str(<<"c">>), FloatV(100), TRUE),
      Param(Str(<<"g", "a", "m", "m", "a">>), FloatV(1), TRUE),
      Param(Str(<<"k", "e", "r", "n", "e", "l">>), StrV(Str(<<"r", "b", "f">>)), TRUE)>>

AggId == DaysInWeek + 1
TrainId == DaysInWeek + 2
PredictId == DaysInWeek + 3

\* The graph __main__ builds: AggregateArtists over the week of 2018-03-07
\* (2018-W10, Monday 5 to Sunday 11 March), which requires one Streams per
\* date, and PredictDigits, which requires its TrainDigits clone.
DemoGraph ==
    [t \in 1..PredictId |->
        IF t <= DaysInWeek
        THEN Task(STREAMS, V10, <<Param(Str(<<"d", "a", "t", "e">>), DateV(2018, 3, 4 + t), TRUE)>>, NoReq)
        ELSE IF t = AggId
        THEN Task(AGGREGATE, V12,
                  <<Param(Str(<<"d", "a", "t", "e", "_", "i", "n", "t", "e", "r", "v", "a", "l">>),
                          WeekV(2018, 10), TRUE)>>,
                  List([i \in 1..DaysInWeek |-> One(i)]))
        ELSE IF t = TrainId
        THEN Task(TRAIN, V10, SVCParams, NoReq)
        ELSE Task(PREDICT, V10, SVCParams, One(TrainId))]

\* The class that defines __version__ for a task of each kind.
Classes == {STREAMS, AGGREGATE, Str(<<"S", "V", "C", "T", "a", "s", "k">>)}

VersionClass(kind) == IF kind \in {TRAIN, PREDICT} THEN Str(<<"S", "V", "C", "T", "a", "s", "k">>) ELSE kind

\* task.<name>
Attr(d, name) ==
    LET i == CHOOSE j \in 1..Len(d.params) : d.params[j].name = name IN d.params[i].value

\* str(value), as '{}'.format(...) renders a parameter in a path.
ToStr(v) ==
    CASE v[1] = "date" ->
            Dec(v[2]) \o Str(<<"-">>) \o Dec2(v[3]) \o Str(<<"-">>) \o Dec2(v[4])
      [] v[1] = "week" -> Dec(v[2]) \o Str(<<"-", "W">>) \o Dec2(v[3])

\* hexdigest[:n]: the first n hex characters, one token.  Distinct digests
\* are taken to have distinct prefixes.
Prefix(hexdigest, n) == << <<"sha256[:n]", <<n, hexdigest[1][2]>>>> >>

\* salted_target: the path with {salt} replaced by the salted version's
\* first six characters.
Salt(g, t) == Prefix(get_salted_version(g, t), SaltLen)

\* The path of task.output() for each class of the demo.
Output(g, t) ==
    CASE g[t].kind = STREAMS ->
            Str(<<"d", "a", "t", "a", "/", "s", "t", "r", "e", "a", "m", "/">>)
            \o ToStr(Attr(g[t], Str(<<"d", "a", "t", "e">>))) \o Str(<<".", "t", "s", "v">>)
      [] g[t].kind = AGGREGATE ->
            Str(<<"d", "a", "t", "a", "/", "a", "r", "t", "i", "s", "t", "_", "s", "t", "r", "e", "a", "m", "s", "_">>)
            \o ToStr(Attr(g[t], Str(<<"d", "a", "t", "e", "_", "i", "n", "t", "e", "r", "v", "a", "l">>)))
            \o Str(<<"-">>) \o Salt(g, t) \o Str(<<".", "t", "s", "v">>)
      [] g[t].kind = TRAIN ->
            Str(<<"d", "a", "t", "a", "/", "m", "o", "d", "e", "l", "-">>)
            \o Salt(g, t) \o Str(<<".", "p", "k", "l">>)
      [] g[t].kind = PREDICT ->
            Str(<<"d", "a", "t", "a", "/", "a", "c", "c", "u", "r", "a", "c", "y", "-">>)
            \o Salt(g, t) \o Str(<<".", "t", "x", "t">>)

InitDemo ==
    /\ tasks = DemoGraph
    /\ Idle
    /\ NoBuild

\* __version__ is set to '1.1' on one task object.
BumpInstance(t) ==
    /\ phase # "running"
    /\ tasks[t].version # V11
    /\ tasks' = [tasks EXCEPT ![t].version = V11]
    /\ shadow' = shadow \cup {t}
    /\ changed' = (IF phase = "done" THEN {} ELSE changed) \cup {t}
    /\ stale' = fs
    /\ phase' = "idle"
    /\ bumps' = bumps + 1
    /\ UNCHANGED <<callVars, fs, pending, ran>>

\* The tasks that read __version__ from class c.
Instances(c) ==
    {t \in DOMAIN tasks : VersionClass(tasks[t].kind) = c /\ t \notin shadow}

\* "Change __version__ at class level when everything needs rerunning!"
BumpClass(c) ==
    /\ phase # "running"
    /\ \E t \in Instances(c) : tasks[t].version # V11
    /\ tasks' = [t \in DOMAIN tasks |->
                    IF t \in Instances(c) THEN [tasks[t] EXCEPT !.version = V11]
                    ELSE tasks[t]]
    /\ changed' = (IF phase = "done" THEN {} ELSE changed) \cup Instances(c)
    /\ stale' = fs
    /\ phase' = "idle"
    /\ bumps' = bumps + 1
    /\ UNCHANGED <<callVars, shadow, fs, pending, ran>>

NextDemo ==
    \/ \E t \in DOMAIN tasks : BumpInstance(t)
    \/ \E c \in Classes : BumpClass(c)

SpecDemo == InitDemo /\ [][NextDemo]_vars

\* ------------------------------------------------- luigi's build

\* Task.complete(): the output exists.
Complete(t) == Output(tasks, t) \in fs

\* The worker adds a task: a complete task is done and its requirements are
\* not looked at; any other task is to run, after its requirements.
RECURSIVE ToRun(_)
ToRun(t) ==
    IF Complete(t) THEN {}
    ELSE {t} \cup UNION {ToRun(u) : u \in Required(tasks, t)}

\* build([agg, PredictDigits()], local_scheduler=True)
StartBuild ==
    /\ phase # "running"
    /\ phase' = "running"
    /\ pending' = ToRun(AggId) \cup ToRun(PredictId)
    /\ ran' = {}
    /\ changed' = IF phase = "done" THEN {} ELSE changed
    /\ stale' = IF phase = "done" THEN {} ELSE stale
    /\ UNCHANGED <<tasks, callVars, shadow, fs, bumps>>

\* The worker runs a task all of whose requirements are complete: run()
\* reads its inputs and writes self.output().
RunTask(t) ==
    /\ phase = "running"
    /\ t \in pending
    /\ \A u \in Required(tasks, t) : Complete(u)
    /\ fs' = fs \cup {Output(tasks, t)}
    /\ pending' = pending \ {t}
    /\ ran' = ran \cup {t}
    /\ UNCHANGED <<tasks, callVars, shadow, phase, changed, stale, bumps>>

\* build() returns.
EndBuild ==
    /\ phase = "running"
    /\ pending = {}
    /\ phase' = "done"
    /\ UNCHANGED <<tasks, callVars, shadow, fs, pending, ran, changed, stale, bumps>>

NextBuild ==
    \/ StartBuild
    \/ \E t \in DOMAIN tasks : RunTask(t)
    \/ EndBuild
    \/ bumps < MaxBumps /\ \E t \in DOMAIN tasks : BumpInstance(t)
    \/ bumps < MaxBumps /\ \E c \in Classes : BumpClass(c)

SpecBuild == InitDemo /\ [][NextBuild]_vars

\* ------------------------------------------------- the identity of a task

\* The set of significant (name, value) pairs of a descriptor.
SignificantPairs(d) ==
    {<<d.params[i].name, d.params[i].value>> :
        i \in {j \in 1..Len(d.params) : d.params[j].significant}}

\* The digests of the flattened requirements of t, in order.
DepDigests(g, t) ==
    LET reqs == flatten(g[t].requires) IN
    [i \in 1..Len(reqs) |-> get_salted_version(g, reqs[i])]

\* Tasks t and u agree on kind, codeVersion, significant parameters and
\* on the ordered sequence of dependency digests.
SameComponents(g, t, u) ==
    /\ g[t].kind = g[u].kind
    /\ g[t].version = g[u].version
    /\ SignificantPairs(g[t]) = SignificantPairs(g[u])
    /\ DepDigests(g, t) = DepDigests(g, u)

\* The tasks that t requires, directly or through other tasks.
RECURSIVE Ancestors(_, _)
Ancestors(g, t) ==
    LET direct == {flatten(g[t].requires)[i] : i \in 1..Len(flatten(g[t].requires))} IN
    direct \cup UNION {Ancestors(g, a) : a \in direct}

\* C1: two tasks that agree on kind, codeVersion, the set of significant
\* parameter name/value pairs and the ordered dependency digests have the
\* same salted version, whatever their declaration order, their
\* insignificant parameters and the object they are.
C1_Determinism ==
    \A t, u \in DOMAIN tasks :
        SameComponents(tasks, t, u)
            => get_salted_version(tasks, t) = get_salted_version(tasks, u)

\* Two distinct task objects with the same four components whose parameter
\* declarations differ (order, or an insignificant parameter).
C1_Witness ==
    \E t, u \in DOMAIN tasks :
        /\ t # u
        /\ SameComponents(tasks, t, u)
        /\ Len(tasks[t].params) = 2
        /\ tasks[t].params # tasks[u].params
        /\ \E i \in 1..2 : tasks[t].params[i].significant
                           /\ tasks[t].params[i].name = Str(<<"b">>)

\* The step changes the codeVersion of task x and nothing else.
OnlyVersionOf(x) ==
    /\ tasks'[x].version # tasks[x].version
    /\ tasks' = [tasks EXCEPT ![x].version = tasks'[x].version]

\* C2: changing only the codeVersion of a task X changes the salted
\* version of X and of every task that has X among its transitive
\* dependencies.
C2_VersionSensitivity ==
    [][\A x \in DOMAIN tasks :
        OnlyVersionOf(x) =>
            \A d \in DOMAIN tasks :
                (d = x \/ x \in Ancestors(tasks, d))
                    => get_salted_version(tasks', d) # get_salted_version(tasks, d)]_vars

\* A task that reaches another one through an intermediate task, and whose
\* codeVersion differs from that other one's: a bump has happened below a
\* two-level lineage.
C2_Witness ==
    \E x, m, d \in DOMAIN tasks :
        /\ x \in Ancestors(tasks, m)
        /\ m \in Ancestors(tasks, d)
        /\ tasks[x].version # tasks[m].version
        /\ tasks[x].version = Str(<<"1", ",", "a", "=", "1">>)

\* Descriptors d and e differ at most in the values of insignificant
\* parameters.
InsignificantOnly(d, e) ==
    /\ d.kind = e.kind
    /\ d.version = e.version
    /\ d.requires = e.requires
    /\ Len(d.params) = Len(e.params)
    /\ \A i \in 1..Len(d.params) :
        /\ d.params[i].name = e.params[i].name
        /\ d.params[i].significant = e.params[i].significant
        /\ d.params[i].significant => d.params[i].value = e.params[i].value

\* Descriptor e is d with one more parameter, an insignificant one.
ExtraInsignificant(d, e) ==
    /\ d.kind = e.kind
    /\ d.version = e.version
    /\ d.requires = e.requires
    /\ \E i \in 1..Len(e.params) :
        /\ ~e.params[i].significant
        /\ d.params = SubSeq(e.params, 1, i - 1) \o SubSeq(e.params, i + 1, Len(e.params))

\* C4: changing the value of an insignificant parameter of a task changes
\* the salted version of no task (the task itself or a dependent), and a
\* task with an extra insignificant parameter has the salted version of
\* the task without it.
C4_InsignificantIgnored ==
    /\ [][(\A t \in DOMAIN tasks : InsignificantOnly(tasks[t], tasks'[t]))
            => Digests(tasks') = Digests(tasks)]_vars
    /\ [](\A t, u \in DOMAIN tasks :
            ExtraInsignificant(tasks[t], tasks[u])
                => get_salted_version(tasks, t) = get_salted_version(tasks, u))

\* A task with a significant and an insignificant parameter, the latter
\* holding the str '1', next to a task without the insignificant one, both
\* required by a third task.
C4_Witness ==
    \E t, u, d \in DOMAIN tasks :
        /\ ExtraInsignificant(tasks[t], tasks[u])
        /\ Len(tasks[u].params) = 2
        /\ \E i \in 1..2 : ~tasks[u].params[i].significant
                           /\ tasks[u].params[i].value = StrV(Str(<<"1">>))
        /\ {t, u} \subseteq Ancestors(tasks, d)

\* C5: when the two-element requirement list [A, B] of a task T is swapped
\* to [B, A] and A and B are not identical (they differ in kind,
\* codeVersion, significant parameters or dependency digests), the salted
\* version of T changes.
C5_OrderSensitive ==
    [][\A t \in DOMAIN tasks :
        LET old == flatten(tasks[t].requires)
            new == flatten(tasks'[t].requires) IN
        (/\ Len(old) = 2
         /\ new = <<old[2], old[1]>>
         /\ tasks' = [tasks EXCEPT ![t].requires = tasks'[t].requires]
         /\ ~SameComponents(tasks, old[1], old[2]))
            => get_salted_version(tasks', t) # get_salted_version(tasks, t)]_vars

\* C6: a task that declares its requirements as a dict has the same salted
\* version for every insertion order of the same key-to-task mapping.
C6_DictOrderIrrelevant ==
    [][\A t \in DOMAIN tasks :
        (/\ tasks[t].requires[1] = "dict"
         /\ tasks'[t].requires[1] = "dict"
         /\ {tasks[t].requires[2][i] : i \in 1..Len(tasks[t].requires[2])}
              = {tasks'[t].requires[2][i] : i \in 1..Len(tasks'[t].requires[2])}
         /\ tasks' = [tasks EXCEPT ![t].requires = tasks'[t].requires])
            => get_salted_version(tasks', t) = get_salted_version(tasks, t)]_vars

\* C10: two tasks that differ in kind, codeVersion, significant
\* parameters or dependency digests are hashed from different messages.
C10_UnambiguousMessage ==
    \A t, u \in DOMAIN tasks :
        ~SameComponents(tasks, t, u) => Message(tasks, t) # Message(tasks, u)

\* The tasks whose __version__ the step changes.
Bumped == {t \in DOMAIN tasks : tasks'[t].version # tasks[t].version}

\* C3: a change of codeVersion leaves the salted version of every task
\* that is neither a changed task nor a transitive dependent of one
\* unchanged; when one Streams task alone is bumped, its salted version
\* and AggregateArtists' change and those of the six other Streams do not.
C3_Frame ==
    [][/\ \A t \in DOMAIN tasks :
            (t \notin Bumped /\ Ancestors(tasks, t) \cap Bumped = {})
                => get_salted_version(tasks', t) = get_salted_version(tasks, t)
       /\ \A x \in 1..DaysInWeek :
            Bumped = {x} =>
                /\ get_salted_version(tasks', x) # get_salted_version(tasks, x)
                /\ get_salted_version(tasks', AggId) # get_salted_version(tasks, AggId)
                /\ \A y \in (1..DaysInWeek) \ {x} :
                    get_salted_version(tasks', y) = get_salted_version(tasks, y)]_vars

\* One Streams task alone has been bumped to '1.1'.
C3_Witness ==
    /\ DOMAIN tasks = 1..PredictId
    /\ \E x \in 1..DaysInWeek :
        /\ shadow = {x}
        /\ tasks[x].version = V11
        /\ \A t \in DOMAIN tasks : t # x => tasks[t].version = DemoGraph[t].version

\* The tasks that have x among their transitive requirements.
Dependents(x) == {t \in DOMAIN tasks : x \in Ancestors(tasks, t)}

\* C7: when a build has ended after the codeVersion of some tasks was
\* changed, every changed task and every task that depends on one was
\* run by that build, and none of them read the output of such a task
\* from a file that existed before the change.
C7_RebuildsDownstream ==
    phase = "done" =>
        \A x \in changed : \A t \in {x} \cup Dependents(x) :
            /\ t \in ran
            /\ \A u \in Required(tasks, t) :
                (u \in changed \/ Ancestors(tasks, u) \cap changed # {})
                    => Output(tasks, u) \notin stale

====
